---- MODULE Spec2Model ----
(***************************************************************************)
(* git-branch-stack: a stack of branch names persisted in the file         *)
(* .git/BRANCH_STACK, and the commands push / pop / rotate / list that     *)
(* move the repository between branches (src/src/stack.rs, src/src/git.rs, *)
(* src/src/actions.rs, src/src/actions/*.rs).                              *)
(*                                                                         *)
(* A branch name is a sequence of characters, the stack file is one flat   *)
(* sequence of characters, so that saving and loading are the conversions  *)
(* the code performs (writeln! per entry; lines() and trim() on read).     *)
(* The only white space of the model's alphabet is the space and the line  *)
(* feed.  Spec is one command after another with the file system working   *)
(* (File::open, File::create and writeln! succeed); SpecStack is a         *)
(* FileStack driven directly through its methods, as the unit tests of     *)
(* stack.rs do.  SpecFresh is Spec from the first command ever; SpecSeq    *)
(* keeps the command before the last one; SpecTree follows the files of    *)
(* the working tree; SpecRun is commands as overlapping processes (load,   *)
(* run, drop); SpecIo is one process on a file system that may fail;       *)
(* SpecParse is the argument of push up to the Action made of it.          *)
(***************************************************************************)
EXTENDS Integers, Sequences, FiniteSets, TLC

\* ------------------------------------------------------------------ bounds

\* Longest stack file a command that grows the stack is started on.
MaxStack == 3

\* Largest value of the machine word (usize) in the model; stands for 2^64 - 1.
UsizeMax == 7

\* Most invocations started as separate processes in one run.
MaxRuns == 2

\* Longest argument of `push` that is parsed.
MaxArg == 3

\* ------------------------------------------------------------------- names

NL == "\n"
SP == " "

master == <<"m">>
second == <<"s">>
third == <<"t", "3">>

\* Every branch name a command line or a stack file of the model mentions.
Names == {master, second, third}

\* HEAD that is on no local branch (detached, or unborn).
NoBranch == <<>>

\* Arguments of a rotation: in range, just out of range, and the largest word.
RotationArgs == (0 .. (MaxStack + 1)) \cup {UsizeMax}

Directions == {"Up", "Down"}

\* Where a libgit2 call of a branch switch may fail although the branch exists.
GitFaults == {"none", "set_head", "checkout"}

\* ------------------------------------------------------- sequence helpers

RECURSIVE Concat(_)
Concat(ss) == IF ss = <<>> THEN <<>> ELSE Head(ss) \o Concat(Tail(ss))

RECURSIVE SeqsUpTo(_, _)
SeqsUpTo(S, k) ==
    IF k = 0 THEN {<<>>}
    ELSE LET shorter == SeqsUpTo(S, k - 1)
         IN  shorter \cup {Append(s, x) : s \in shorter, x \in S}

\* ------------------------------------------------- FileStack (stack.rs)

\* VecDeque primitives; index 1 is the front (the top of the stack).
push_front(stack, item) == <<item>> \o stack
push_back(stack, item) == Append(stack, item)
pop_front(stack) == Tail(stack)
pop_back(stack) == SubSeq(stack, 1, Len(stack) - 1)
back(stack) == stack[Len(stack)]

\* FileStack::push
push(stack, item) == push_front(stack, item)

\* pop as it would be if it took the entry at the bottom (pop_back).
pop_FromBottom(stack) ==
    IF stack = <<>>
    THEN [some |-> FALSE, item |-> <<>>, stack |-> stack]
    ELSE [some |-> TRUE, item |-> back(stack), stack |-> pop_back(stack)]

\* FileStack::pop: the returned Option and the stack left behind.
pop(stack) ==
    IF stack = <<>>
    THEN [some |-> FALSE, item |-> <<>>, stack |-> stack]
    ELSE [some |-> TRUE, item |-> Head(stack), stack |-> pop_front(stack)]

\* FileStack::peek
peek(stack) ==
    IF stack = <<>>
    THEN [some |-> FALSE, item |-> <<>>]
    ELSE [some |-> TRUE, item |-> Head(stack)]

\* The loop of rotate_up: k times, pop_back then push_front.
RECURSIVE RaiseBottom(_, _)
RaiseBottom(stack, k) ==
    IF k = 0 \/ stack = <<>> THEN stack
    ELSE RaiseBottom(push_front(pop_back(stack), back(stack)), k - 1)

\* The loop of rotate_down: k times, pop_front then push_back.
RECURSIVE SinkTop(_, _)
SinkTop(stack, k) ==
    IF k = 0 \/ stack = <<>> THEN stack
    ELSE SinkTop(push_back(pop_front(stack), Head(stack)), k - 1)

\* rotate_up as it would be without `let n = n + 1`.
rotate_up_NoSuccessor(stack, n, overflowChecks) ==
    IF n <= Len(stack)
    THEN [res |-> "Ok", stack |-> RaiseBottom(stack, n)]
    ELSE [res |-> "NoStackEntry", stack |-> stack]

\* FileStack::rotate_up.  `let n = n + 1` is usize arithmetic: with overflow
\* checks (a debug build) n = usize::MAX panics, without them (a release
\* build) it wraps to 0.
rotate_up(stack, n, overflowChecks) ==
    IF n + 1 > UsizeMax /\ overflowChecks
    THEN [res |-> "panic", stack |-> stack]
    ELSE LET n1 == (n + 1) % (UsizeMax + 1)
         IN  IF n1 <= Len(stack)
             THEN [res |-> "Ok", stack |-> RaiseBottom(stack, n1)]
             ELSE [res |-> "NoStackEntry", stack |-> stack]

\* rotate_down as it would be with the loop running 0..=n.
rotate_down_OneMore(stack, n) ==
    IF n < Len(stack)
    THEN [res |-> "Ok", stack |-> SinkTop(stack, n + 1)]
    ELSE [res |-> "NoStackEntry", stack |-> stack]

\* rotate_down as it would be with the bound of rotate_up (n <= len).
rotate_down_AllowFull(stack, n) ==
    IF n <= Len(stack)
    THEN [res |-> "Ok", stack |-> SinkTop(stack, n)]
    ELSE [res |-> "NoStackEntry", stack |-> stack]

\* FileStack::rotate_down
rotate_down(stack, n) ==
    IF n < Len(stack)
    THEN [res |-> "Ok", stack |-> SinkTop(stack, n)]
    ELSE [res |-> "NoStackEntry", stack |-> stack]

\* str::lines: split at line feeds; a final line feed opens no further line.
RECURSIVE SplitLines(_, _)
SplitLines(text, cur) ==
    IF text = <<>> THEN (IF cur = <<>> THEN <<>> ELSE <<cur>>)
    ELSE IF Head(text) = NL
         THEN <<cur>> \o SplitLines(Tail(text), <<>>)
         ELSE SplitLines(Tail(text), Append(cur, Head(text)))

lines(text) == SplitLines(text, <<>>)

\* str::trim: drop the white space at both ends.
RECURSIVE trim_start(_)
trim_start(s) == IF s # <<>> /\ Head(s) = SP THEN trim_start(Tail(s)) ELSE s

RECURSIVE trim_end(_)
trim_end(s) ==
    IF s # <<>> /\ s[Len(s)] = SP THEN trim_end(SubSeq(s, 1, Len(s) - 1)) ELSE s

trim(s) == trim_end(trim_start(s))

\* The stack file: absent, or a text.
NoFile == [exists |-> FALSE, text |-> <<>>]

\* FileStack::read_file: a missing file is the empty stack.
read_file(f) ==
    IF ~f.exists THEN <<>>
    ELSE LET ls == lines(f.text)
         IN  [i \in 1 .. Len(ls) |-> trim(ls[i])]

\* FileStack::save as it would be with write! in place of writeln!.
save_NoLineFeed(stack) ==
    [exists |-> TRUE, text |-> Concat([i \in 1 .. Len(stack) |-> stack[i]])]

\* FileStack::save: File::create, then one writeln! per entry, top first.
save(stack) ==
    [exists |-> TRUE,
     text |-> Concat([i \in 1 .. Len(stack) |-> stack[i] \o <<NL>>])]

\* FileStack::new as it would be if read_file opened the file without asking
\* whether it exists.
FileStack_new_OpenMissing(f, readFault) ==
    IF ~f.exists \/ readFault
    THEN [ok |-> FALSE, stack |-> <<>>]
    ELSE [ok |-> TRUE, stack |-> read_file(f)]

\* FileStack::new: read_file, whose `?` return the error of File::open or of
\* read_to_string; a path that does not exist is not opened.
FileStack_new(f, readFault) ==
    IF f.exists /\ readFault
    THEN [ok |-> FALSE, stack |-> <<>>]
    ELSE [ok |-> TRUE, stack |-> read_file(f)]

\* How the file system may fail a save: File::create, or a writeln!.
SaveFaults == {"none", "create", "write"}

\* FileStack::save as it would be if it appended to the file it finds.
FileStack_save_Append(stack, f, saveFault, written) ==
    CASE saveFault = "create" -> [file |-> f, saved |-> "IoError"]
      [] saveFault = "write" /\ written < Len(stack) ->
            [file |-> [exists |-> TRUE,
                       text |-> f.text \o save(SubSeq(stack, 1, written)).text],
             saved |-> "IoError"]
      [] OTHER ->
            [file |-> [exists |-> TRUE, text |-> f.text \o save(stack).text],
             saved |-> "Ok"]

\* FileStack::save on a file system that may fail: a failed File::create leaves
\* the file as it was; File::create truncates, and a writeln! that fails after
\* `written` entries leaves those entries in the file.
FileStack_save(stack, f, saveFault, written) ==
    CASE saveFault = "create" -> [file |-> f, saved |-> "IoError"]
      [] saveFault = "write" /\ written < Len(stack) ->
            [file |-> save(SubSeq(stack, 1, written)), saved |-> "IoError"]
      [] OTHER -> [file |-> save(stack), saved |-> "Ok"]

\* Drop as it would be if it saved only after a command that succeeded.
drop_OnlyOnOk(stack, f, res, saveFault, written) ==
    IF res = "Ok"
    THEN LET s == FileStack_save(stack, f, saveFault, written)
         IN  [file |-> s.file, saved |-> s.saved, res |-> res, saves |-> 1]
    ELSE [file |-> f, saved |-> "none", res |-> res, saves |-> 0]

\* Drop as it would be if the error of save replaced the command's result.
drop_Propagate(stack, f, res, saveFault, written) ==
    LET s == FileStack_save(stack, f, saveFault, written)
    IN  [file |-> s.file, saved |-> s.saved,
         res |-> IF s.saved = "Ok" THEN res ELSE s.saved, saves |-> 1]

\* Drop for FileStack: one call of save, `let _ =` discarding what it returns,
\* so that the command's result `res` is what the process exits with.
drop(stack, f, res, saveFault, written) ==
    LET s == FileStack_save(stack, f, saveFault, written)
    IN  [file |-> s.file, saved |-> s.saved, res |-> res, saves |-> 1]

\* ------------------------------------------------------ repository (git.rs)

\* The repository as the commands see it: the branch HEAD is on (NoBranch when
\* it is on none) and the local branches that exist.
Repositories ==
    {[head |-> h, branches |-> bs] :
        h \in Names \cup {NoBranch}, bs \in SUBSET Names}

\* get_current_branch_name as it would be if it answered with whatever HEAD
\* holds, a branch or not.
get_current_branch_name_AnyHead(r) == [ok |-> TRUE, name |-> r.head]

\* get_current_branch_name: the local branch that is HEAD, or NoCurrrentBranch.
get_current_branch_name(r) ==
    IF r.head \in r.branches
    THEN [ok |-> TRUE, name |-> r.head]
    ELSE [ok |-> FALSE, name |-> NoBranch]

\* change_branch: find_branch, set_head, then a hard reset to the branch's
\* commit; every step returns early on its error.  (reference.name() is None
\* only for a name that is not UTF-8, which no name of the model is.)
change_branch(r, branch_name, fault) ==
    IF branch_name \notin r.branches THEN [repo |-> r, res |-> "GitError"]
    ELSE IF fault = "set_head" THEN [repo |-> r, res |-> "GitError"]
    ELSE LET moved == [r EXCEPT !.head = branch_name]
         IN  IF fault = "checkout"
             THEN [repo |-> moved, res |-> "GitError"]
             ELSE [repo |-> moved, res |-> "Ok"]

\* ------------------------------------------------- commands (actions/*.rs)

\* What a command leaves: the repository, the in-memory stack, its result,
\* whether it tried to switch branches ("none", "ok", "failed") and what it
\* printed.
Outcome(r, stack, res, switch, out) ==
    [repo |-> r, stack |-> stack, res |-> res, switch |-> switch, out |-> out]

\* push_branch as it would be with stack.push(current_branch) ahead of the switch.
push_branch_PushFirst(r, stack, branch_name, fault) ==
    LET current_branch == get_current_branch_name(r)
    IN  IF ~current_branch.ok
        THEN Outcome(r, stack, "NoCurrentBranch", "none", <<>>)
        ELSE LET pushed == push(stack, current_branch.name)
             IN  IF branch_name \notin r.branches \/ fault = "set_head"
                 THEN Outcome(r, pushed, "GitError", "failed", <<>>)
                 ELSE LET moved == [r EXCEPT !.head = branch_name]
                      IN  IF fault = "checkout"
                          THEN Outcome(moved, pushed, "GitError", "failed", <<>>)
                          ELSE Outcome(moved, pushed, "Ok", "ok", <<>>)

\* push_branch as it would be if it pushed the branch it switches to.
push_branch_PushTarget(r, stack, branch_name, fault) ==
    LET current_branch == get_current_branch_name(r)
    IN  IF ~current_branch.ok
        THEN Outcome(r, stack, "NoCurrentBranch", "none", <<>>)
        ELSE IF branch_name \notin r.branches \/ fault = "set_head"
        THEN Outcome(r, stack, "GitError", "failed", <<>>)
        ELSE LET moved == [r EXCEPT !.head = branch_name]
             IN  IF fault = "checkout"
                 THEN Outcome(moved, stack, "GitError", "failed", <<>>)
                 ELSE Outcome(moved, push(stack, branch_name), "Ok", "ok", <<>>)

\* push_branch: reads the current branch, switches (find_branch, set_head,
\* checkout_head, each returning early on its error), and only then pushes
\* the branch it left.  (reference.name() is None only for a name that is
\* not UTF-8, which no name of the model is.)
push_branch(r, stack, branch_name, fault) ==
    LET current_branch == get_current_branch_name(r)
    IN  IF ~current_branch.ok
        THEN Outcome(r, stack, "NoCurrentBranch", "none", <<>>)
        ELSE IF branch_name \notin r.branches \/ fault = "set_head"
        THEN Outcome(r, stack, "GitError", "failed", <<>>)
        ELSE LET moved == [r EXCEPT !.head = branch_name]
             IN  IF fault = "checkout"
                 THEN Outcome(moved, stack, "GitError", "failed", <<>>)
                 ELSE Outcome(moved, push(stack, current_branch.name),
                              "Ok", "ok", <<>>)

\* pop_branch_stack as it would be if an empty stack were no error.
pop_branch_stack_EmptyOk(r, stack, fault) ==
    LET popped == pop(stack)
    IN  IF ~popped.some
        THEN Outcome(r, stack, "Ok", "none", <<>>)
        ELSE LET sw == change_branch(r, popped.item, fault)
             IN  Outcome(sw.repo, popped.stack, sw.res,
                         IF sw.res = "Ok" THEN "ok" ELSE "failed",
                         <<popped.item>>)

\* pop_branch_stack as it would be if it peeked, switched, and removed the
\* entry only after the switch succeeded.
pop_branch_stack_RemoveAfterSwitch(r, stack, fault) ==
    LET top == peek(stack)
    IN  IF ~top.some
        THEN Outcome(r, stack, "EmptyStack", "none", <<>>)
        ELSE LET sw == change_branch(r, top.item, fault)
             IN  IF sw.res = "Ok"
                 THEN Outcome(sw.repo, pop(stack).stack, "Ok", "ok", <<top.item>>)
                 ELSE Outcome(sw.repo, stack, sw.res, "failed", <<top.item>>)

\* pop_branch_stack: pops, prints the name, then switches to it.
pop_branch_stack(r, stack, fault) ==
    LET popped == pop(stack)
    IN  IF ~popped.some
        THEN Outcome(r, stack, "EmptyStack", "none", <<>>)
        ELSE LET sw == change_branch(r, popped.item, fault)
             IN  Outcome(sw.repo, popped.stack, sw.res,
                         IF sw.res = "Ok" THEN "ok" ELSE "failed",
                         <<popped.item>>)

\* rotate_branch as it would be without stack.push(current_branch).
rotate_branch_NoPush(r, stack, dir, n, fault, overflowChecks) ==
    LET current_branch == get_current_branch_name(r)
    IN  IF ~current_branch.ok
        THEN Outcome(r, stack, "NoCurrentBranch", "none", <<>>)
        ELSE LET rotated == IF dir = "Up"
                            THEN rotate_up(stack, n, overflowChecks)
                            ELSE rotate_down(stack, n)
             IN  IF rotated.res # "Ok"
                 THEN Outcome(r, rotated.stack, rotated.res, "none", <<>>)
                 ELSE LET popped == pop(rotated.stack)
                      IN  IF ~popped.some
                          THEN Outcome(r, popped.stack, "NoStackEntry",
                                       "none", <<>>)
                          ELSE LET sw == change_branch(r, popped.item, fault)
                               IN  Outcome(sw.repo, popped.stack, sw.res,
                                           IF sw.res = "Ok" THEN "ok"
                                           ELSE "failed",
                                           <<popped.item>>)

\* rotate_branch: pushes the current branch, rotates, pops the new top,
\* prints it and switches to it.
rotate_branch(r, stack, dir, n, fault, overflowChecks) ==
    LET current_branch == get_current_branch_name(r)
    IN  IF ~current_branch.ok
        THEN Outcome(r, stack, "NoCurrentBranch", "none", <<>>)
        ELSE LET pushed == push(stack, current_branch.name)
                 rotated == IF dir = "Up"
                            THEN rotate_up(pushed, n, overflowChecks)
                            ELSE rotate_down(pushed, n)
             IN  IF rotated.res # "Ok"
                 THEN Outcome(r, rotated.stack, rotated.res, "none", <<>>)
                 ELSE LET popped == pop(rotated.stack)
                      IN  IF ~popped.some
                          THEN Outcome(r, popped.stack, "NoStackEntry",
                                       "none", <<>>)
                          ELSE LET sw == change_branch(r, popped.item, fault)
                               IN  Outcome(sw.repo, popped.stack, sw.res,
                                           IF sw.res = "Ok" THEN "ok"
                                           ELSE "failed",
                                           <<popped.item>>)

\* list_branch_stack as it would be if it printed the stack bottom first.
list_branch_stack_BottomFirst(r, stack) ==
    LET branch_name == get_current_branch_name(r)
    IN  IF ~branch_name.ok
        THEN Outcome(r, stack, "NoCurrentBranch", "none", <<>>)
        ELSE Outcome(r, stack, "Ok", "none",
                     <<branch_name.name>>
                        \o [i \in 1 .. Len(stack) |-> stack[Len(stack) - i + 1]])

\* list_branch_stack: prints the current branch, then the stack top first.
list_branch_stack(r, stack) ==
    LET branch_name == get_current_branch_name(r)
    IN  IF ~branch_name.ok
        THEN Outcome(r, stack, "NoCurrentBranch", "none", <<>>)
        ELSE Outcome(r, stack, "Ok", "none", <<branch_name.name>> \o stack)

\* The Action enum.
ActPush(name) == [tag |-> "Push", name |-> name, dir |-> "Up", n |-> 0]
ActPop == [tag |-> "Pop", name |-> NoBranch, dir |-> "Up", n |-> 0]
ActList == [tag |-> "List", name |-> NoBranch, dir |-> "Up", n |-> 0]
ActRotate(dir, n) == [tag |-> "Rotate", name |-> NoBranch, dir |-> dir, n |-> n]

\* The `match action` of invoke_action: the command, on the loaded stack.
match_action(action, r, stack, fault, overflowChecks) ==
    CASE action.tag = "Push" -> push_branch(r, stack, action.name, fault)
      [] action.tag = "List" -> list_branch_stack(r, stack)
      [] action.tag = "Pop" -> pop_branch_stack(r, stack, fault)
      [] action.tag = "Rotate" ->
            rotate_branch(r, stack, action.dir, action.n, fault,
                          overflowChecks)

\* invoke_action: loads the stack, runs the command, and the FileStack going
\* out of scope saves it (Drop), whatever the command returned; a panic
\* unwinds through the same Drop.
invoke_action(action, r, f, fault, overflowChecks) ==
    LET stack == read_file(f)
        done == match_action(action, r, stack, fault, overflowChecks)
    IN  [repo |-> done.repo, file |-> save(done.stack), stack |-> done.stack,
         res |-> done.res, switch |-> done.switch, out |-> done.out]

\* ------------------------------------------------------------------- state

VARIABLES
    repo,   \* the repository: HEAD and the local branches
    file,   \* the stack file .git/BRANCH_STACK
    last,   \* the last command: its arguments, what it started from, its outcome
    fs,     \* a FileStack used directly through its methods
    op,     \* the last method called on fs: its argument, the stack before, its return
    hist,   \* the pushes on fs and the pops that followed them, since the last other call
    proc,   \* the invocations in flight, one per process: position, stack in memory, result
    started, \* the number of invocations started as separate processes
    prev,   \* the command before the last one, where two commands in a row are followed
    wt,     \* the working tree, where it is followed: tracked, untracked, ignored files
    cl      \* a `push` argument and the Action parse_push_args made of it

cmdVars == <<repo, file, last>>
stackVars == <<fs, op, hist>>
runVars == <<proc, started>>
moreVars == <<prev, wt, cl>>
vars == <<repo, file, last, fs, op, hist, proc, started, prev, wt, cl>>

NoLast ==
    [cmd |-> "none", name |-> NoBranch, dir |-> "Up", n |-> 0,
     repo0 |-> [head |-> NoBranch, branches |-> {}], file0 |-> NoFile,
     stack0 |-> <<>>, res |-> "none", switch |-> "none", stack |-> <<>>,
     out |-> <<>>]

NoOp ==
    [name |-> "none", n |-> 0, pre |-> <<>>, res |-> "none",
     some |-> FALSE, item |-> <<>>]

\* A working tree that is not followed.
NoTree == [tracked |-> NoBranch, untracked |-> FALSE, ignored |-> FALSE]

\* No `push` argument parsed.
NoArg == [arg |-> <<>>, action |-> ActList]

\* No push or pop yet on the stack `base`.
NoHist(base) == [base |-> base, pushed |-> <<>>, popped |-> <<>>]

\* The processes that may run a command at the same time.
Procs == {1, 2}

\* A process that runs no command.
IdleProc ==
    [pc |-> "idle", id |-> 0, action |-> ActList, loaded |-> FALSE,
     file0 |-> NoFile, stack0 |-> <<>>,
     repo0 |-> [head |-> NoBranch, branches |-> {}], stack |-> <<>>,
     ran |-> "none", res |-> "none", out |-> <<>>, saves |-> 0,
     saved |-> "none", over |-> {}]

\* A repository with any of the branches, HEAD on one of them or on none, and a
\* stack file that is absent or was saved by an earlier command (the names in
\* it are not checked against the branches until a switch is attempted).
Init ==
    /\ repo \in {r \in Repositories : r.head \in r.branches \cup {NoBranch}}
    /\ file \in {NoFile} \cup {save(s) : s \in SeqsUpTo(Names, MaxStack)}
    /\ last = NoLast
    /\ fs = <<>>
    /\ op = NoOp
    /\ hist = NoHist(<<>>)
    /\ proc = [p \in Procs |-> IdleProc]
    /\ started = 0
    /\ prev = NoLast
    /\ wt = NoTree
    /\ cl = NoArg

\* One command, from process start to exit: the stack is loaded, the command
\* runs, and the stack is saved as the FileStack is dropped.
Invoke(action, fault, overflowChecks) ==
    LET r == invoke_action(action, repo, file, fault, overflowChecks)
    IN  /\ repo' = r.repo
        /\ file' = r.file
        /\ last' = [cmd |-> action.tag, name |-> action.name,
                    dir |-> action.dir, n |-> action.n,
                    repo0 |-> repo, file0 |-> file,
                    stack0 |-> read_file(file), res |-> r.res,
                    switch |-> r.switch, stack |-> r.stack, out |-> r.out]
        /\ UNCHANGED <<stackVars, runVars, moreVars>>

\* `push <branch>`.  (No usize arithmetic on this path.)
CmdPush(name) ==
    /\ Len(read_file(file)) < MaxStack
    /\ \E fault \in GitFaults : Invoke(ActPush(name), fault, FALSE)

\* `pop`.
CmdPop ==
    \E fault \in GitFaults : Invoke(ActPop, fault, FALSE)

\* `push +n` and `push -n`, in a build with or without overflow checks.
CmdRotate(dir, n) ==
    /\ Len(read_file(file)) < MaxStack
    /\ \E fault \in GitFaults, overflowChecks \in BOOLEAN :
          Invoke(ActRotate(dir, n), fault, overflowChecks)

\* `list`.  (No branch switch and no usize arithmetic on this path.)
CmdList == Invoke(ActList, "none", FALSE)

Next ==
    \/ \E name \in Names : CmdPush(name)
    \/ CmdPop
    \/ \E dir \in Directions, n \in RotationArgs : CmdRotate(dir, n)
    \/ CmdList

Spec == Init /\ [][Next]_vars

\* The first command ever in a repository with HEAD on one of its branches:
\* no stack file, or an empty one.
InitFresh ==
    /\ repo \in {r \in Repositories : r.head \in r.branches}
    /\ file \in {NoFile, save(<<>>)}
    /\ last = NoLast
    /\ fs = <<>>
    /\ op = NoOp
    /\ hist = NoHist(<<>>)
    /\ proc = [p \in Procs |-> IdleProc]
    /\ started = 0
    /\ prev = NoLast
    /\ wt = NoTree
    /\ cl = NoArg

\* The commands of Spec, one after another, from the first one on.
SpecFresh == InitFresh /\ [][Next]_vars

\* ------------------------------- the argument of push (rotate.rs, main.rs)

\* The characters of the arguments: the signs, digits (with UsizeMax = 7 the
\* number 8 does not fit a word), and a letter.
ArgChars == {"+", "-", "0", "1", "8", "m"}

PushArgs == SeqsUpTo(ArgChars, MaxArg)

Digits == <<"0", "1", "2", "3", "4", "5", "6", "7", "8", "9">>

IsDigit(c) == \E d \in 1 .. 10 : Digits[d] = c

DigitValue(c) == (CHOOSE d \in 1 .. 10 : Digits[d] = c) - 1

NotANumber == [ok |-> FALSE, n |-> 0]

\* The digit loop of usize::from_str: each digit is added to ten times the
\* number so far, with checked arithmetic; a character that is no digit, or
\* a number beyond the largest word, is an error.
RECURSIVE accumulate(_, _)
accumulate(digits, acc) ==
    IF digits = <<>> THEN [ok |-> TRUE, n |-> acc]
    ELSE IF ~IsDigit(Head(digits)) THEN NotANumber
    ELSE LET next == acc * 10 + DigitValue(Head(digits))
         IN  IF next > UsizeMax THEN NotANumber
             ELSE accumulate(Tail(digits), next)

\* n_str.parse() as it would be if a sign before the digits were an error.
parse_usize_DigitsOnly(src) ==
    IF src = <<>> THEN NotANumber ELSE accumulate(src, 0)

\* n_str.parse() at type usize (usize::from_str): the empty string is an
\* error; one leading "+" is skipped when something follows it; "-" is no
\* digit of an unsigned type.
parse_usize(src) ==
    IF src = <<>> THEN NotANumber
    ELSE LET digits == IF Head(src) = "+" THEN Tail(src) ELSE src
         IN  IF digits = <<>> THEN NotANumber ELSE accumulate(digits, 0)

NoRotation == [some |-> FALSE, dir |-> "Up", n |-> 0]

\* parse_rotation: the first character decides the direction, the rest must
\* parse as a usize.
parse_rotation(input) ==
    IF input = <<>> THEN NoRotation
    ELSE IF Head(input) \notin {"+", "-"} THEN NoRotation
    ELSE LET direction == IF Head(input) = "+" THEN "Up" ELSE "Down"
             n == parse_usize(Tail(input))
         IN  IF n.ok THEN [some |-> TRUE, dir |-> direction, n |-> n.n]
             ELSE NoRotation

\* parse_push_args: a rotation when parse_rotation finds one, else a push of
\* the argument as a branch name.
parse_push_args(branch_name) ==
    LET rotation == parse_rotation(branch_name)
    IN  IF rotation.some THEN ActRotate(rotation.dir, rotation.n)
        ELSE ActPush(branch_name)

InitParse ==
    /\ repo = [head |-> NoBranch, branches |-> {}]
    /\ file = NoFile
    /\ last = NoLast
    /\ fs = <<>>
    /\ op = NoOp
    /\ hist = NoHist(<<>>)
    /\ proc = [p \in Procs |-> IdleProc]
    /\ started = 0
    /\ prev = NoLast
    /\ wt = NoTree
    /\ cl = NoArg

\* `push <arg>` up to the Action it is parsed into.
ParsePush(arg) ==
    /\ cl' = [arg |-> arg, action |-> parse_push_args(arg)]
    /\ UNCHANGED <<cmdVars, stackVars, runVars, prev, wt>>

NextParse == \E arg \in PushArgs : ParsePush(arg)

SpecParse == InitParse /\ [][NextParse]_vars

\* ------------------------------------- commands in a row, and their files

\* Arguments of a rotation where the runs are of separate processes, or are
\* followed with their files.
RunRotationArgs == {0, 1, UsizeMax}

\* The record of a command started in the current state, `r` being what
\* invoke_action made of it.
LastCommand(action, r) ==
    [cmd |-> action.tag, name |-> action.name, dir |-> action.dir,
     n |-> action.n, repo0 |-> repo, file0 |-> file,
     stack0 |-> read_file(file), res |-> r.res, switch |-> r.switch,
     stack |-> r.stack, out |-> r.out]

\* One command, from process start to exit.
Command(action, fault, overflowChecks) ==
    LET r == invoke_action(action, repo, file, fault, overflowChecks)
    IN  /\ repo' = r.repo
        /\ file' = r.file
        /\ last' = LastCommand(action, r)

\* Arguments of a rotation where two commands in a row are followed: every
\* offset in range of a stack a rotation is started on, and the next one.
SeqRotationArgs == 0 .. MaxStack

\* One command after another, the command before the last one being kept.
SeqCommand(action, fault, overflowChecks) ==
    /\ Command(action, fault, overflowChecks)
    /\ prev' = last
    /\ UNCHANGED <<stackVars, runVars, wt, cl>>

SeqPush(name) ==
    /\ Len(read_file(file)) < MaxStack
    /\ \E fault \in GitFaults : SeqCommand(ActPush(name), fault, FALSE)

SeqPop ==
    \E fault \in GitFaults : SeqCommand(ActPop, fault, FALSE)

\* (The arguments are below the largest word: no overflow on this path.)
SeqRotate(dir, n) ==
    /\ Len(read_file(file)) < MaxStack
    /\ \E fault \in GitFaults : SeqCommand(ActRotate(dir, n), fault, FALSE)

SeqList == SeqCommand(ActList, "none", FALSE)

NextSeq ==
    \/ \E name \in Names : SeqPush(name)
    \/ SeqPop
    \/ \E dir \in Directions, n \in SeqRotationArgs : SeqRotate(dir, n)
    \/ SeqList

\* A repository with HEAD on one of its branches, and a stack file that is
\* absent or was saved by an earlier command, short enough for a push or a
\* rotate to be started on it.
InitSeq ==
    /\ repo \in {r \in Repositories : r.head \in r.branches}
    /\ file \in {NoFile} \cup {save(s) : s \in SeqsUpTo(Names, MaxStack - 1)}
    /\ last = NoLast
    /\ fs = <<>>
    /\ op = NoOp
    /\ hist = NoHist(<<>>)
    /\ proc = [p \in Procs |-> IdleProc]
    /\ started = 0
    /\ prev = NoLast
    /\ wt = NoTree
    /\ cl = NoArg

SpecSeq == InitSeq /\ [][NextSeq]_vars

\* repo.reset(&object, ResetType::Hard, ..) of change_branch, with the default
\* CheckoutBuilder: the tracked files are forced to the tree of the target;
\* untracked and ignored files are not touched.
reset_hard(w, target) == [w EXCEPT !.tracked = target]

\* repo.checkout_head of push_branch, with allow_conflicts(true) and
\* remove_untracked(true): untracked files that are not ignored are removed.
\* The checkout is not forced, so that whether every tracked file ends as in
\* the target (`synced`) depends on the local changes libgit2 finds.
checkout_head(w, target, synced) ==
    [tracked |-> IF synced THEN target ELSE w.tracked,
     untracked |-> FALSE,
     ignored |-> w.ignored]

\* The working tree after a command that started on repository r and tree w
\* and left `done`: push_branch checks out by checkout_head, pop and rotate
\* by change_branch.  A switch that failed at find_branch or set_head has not
\* touched the files; one that failed in the checkout has, or has not.
switch_tree(action, r, done, w, synced) ==
    LET after == IF action.tag = "Push"
                 THEN checkout_head(w, done.repo.head, synced)
                 ELSE reset_hard(w, done.repo.head)
    IN  CASE done.switch = "ok" -> after
          [] done.switch = "failed" /\ done.repo # r ->
                IF synced THEN after ELSE w
          [] OTHER -> w

\* A repository with every branch, the working tree that of the current
\* branch, with or without an untracked file and an ignored file.
InitTree ==
    /\ repo \in {r \in Repositories : r.branches = Names /\ r.head \in Names}
    /\ file \in {NoFile, save(<<second>>), save(<<master, third>>)}
    /\ last = NoLast
    /\ fs = <<>>
    /\ op = NoOp
    /\ hist = NoHist(<<>>)
    /\ proc = [p \in Procs |-> IdleProc]
    /\ started = 0
    /\ prev = NoLast
    /\ wt \in {[tracked |-> repo.head, untracked |-> u, ignored |-> i] :
                  u \in BOOLEAN, i \in BOOLEAN}
    /\ cl = NoArg

\* One command and what it does to the files of the working tree.
TreeCommand(action, fault, overflowChecks, synced) ==
    /\ Command(action, fault, overflowChecks)
    /\ wt' = switch_tree(action, repo,
                         invoke_action(action, repo, file, fault,
                                       overflowChecks),
                         wt, synced)
    /\ UNCHANGED <<stackVars, runVars, prev, cl>>

TreePush(name) ==
    /\ Len(read_file(file)) < MaxStack
    /\ \E fault \in GitFaults, synced \in BOOLEAN :
          TreeCommand(ActPush(name), fault, FALSE, synced)

TreePop ==
    \E fault \in GitFaults, synced \in BOOLEAN :
        TreeCommand(ActPop, fault, FALSE, synced)

TreeRotate(dir, n) ==
    /\ Len(read_file(file)) < MaxStack
    /\ \E fault \in GitFaults, overflowChecks \in BOOLEAN,
          synced \in BOOLEAN :
          TreeCommand(ActRotate(dir, n), fault, overflowChecks, synced)

TreeList == TreeCommand(ActList, "none", FALSE, FALSE)

NextTree ==
    \/ \E name \in Names : TreePush(name)
    \/ TreePop
    \/ \E dir \in Directions, n \in RunRotationArgs : TreeRotate(dir, n)
    \/ TreeList

SpecTree == InitTree /\ [][NextTree]_vars

\* ------------------------------ invocations as processes, step by step

\* The command lines of the runs of separate processes.
RunActions ==
    {ActPush(name) : name \in Names} \cup {ActPop, ActList}
        \cup {ActRotate(dir, n) : dir \in Directions, n \in RunRotationArgs}

\* A repository on master with one more branch (`third` names no branch), and
\* a stack file that does not exist yet or holds two entries.
InitRun ==
    /\ repo = [head |-> master, branches |-> {master, second}]
    /\ file \in {NoFile, save(<<second, third>>)}
    /\ last = NoLast
    /\ fs = <<>>
    /\ op = NoOp
    /\ hist = NoHist(<<>>)
    /\ proc = [p \in Procs |-> IdleProc]
    /\ started = 0
    /\ prev = NoLast
    /\ wt = NoTree
    /\ cl = NoArg

\* Process p starts a command: invoke_action up to FileStack::new, whose error
\* ends the invocation before any FileStack exists.
Start(p, action, readFault) ==
    /\ proc[p].pc \in {"idle", "done"}
    /\ started < MaxRuns
    /\ LET n == FileStack_new(file, readFault)
       IN  proc' = [proc EXCEPT ![p] =
                [pc |-> IF n.ok THEN "loaded" ELSE "done",
                 id |-> started + 1, action |-> action, loaded |-> n.ok,
                 file0 |-> file, stack0 |-> n.stack, repo0 |-> repo,
                 stack |-> n.stack, ran |-> "none",
                 res |-> IF n.ok THEN "none" ELSE "IoError",
                 out |-> <<>>, saves |-> 0, saved |-> "none", over |-> {}]]
    /\ started' = started + 1
    /\ UNCHANGED <<cmdVars, stackVars, moreVars>>

\* Process p runs its command on the stack it holds in memory.
Run(p, fault, overflowChecks) ==
    /\ proc[p].pc = "loaded"
    /\ LET done == match_action(proc[p].action, repo, proc[p].stack, fault,
                                overflowChecks)
       IN  /\ repo' = done.repo
           /\ proc' = [proc EXCEPT ![p].pc = "ran", ![p].stack = done.stack,
                                   ![p].ran = done.res, ![p].res = done.res,
                                   ![p].out = done.out]
    /\ UNCHANGED <<file, last, stackVars, started, moreVars>>

\* Process p leaves invoke_action: the FileStack is dropped, and the process
\* exits.  `over` keeps the invocations that had loaded and not yet saved.
Exit(p, saveFault, written) ==
    /\ proc[p].pc = "ran"
    /\ LET d == drop(proc[p].stack, file, proc[p].res, saveFault, written)
       IN  /\ file' = d.file
           /\ proc' = [proc EXCEPT
                  ![p].pc = "done", ![p].res = d.res,
                  ![p].saves = @ + d.saves, ![p].saved = d.saved,
                  ![p].over = {proc[q].id : q \in
                      {o \in Procs \ {p} : proc[o].pc \in {"loaded", "ran"}}}]
    /\ UNCHANGED <<repo, last, stackVars, started, moreVars>>

\* Processes that overlap freely, the file system working.
NextRun ==
    \E p \in Procs :
        \/ \E action \in RunActions : Start(p, action, FALSE)
        \/ \E fault \in GitFaults, overflowChecks \in BOOLEAN :
              Run(p, fault, overflowChecks)
        \/ Exit(p, "none", 0)

SpecRun == InitRun /\ [][NextRun]_vars

\* One process at a time, on a file system that may fail.
NextIo ==
    \/ \E action \in RunActions, readFault \in BOOLEAN :
          Start(1, action, readFault)
    \/ \E fault \in GitFaults, overflowChecks \in BOOLEAN :
          Run(1, fault, overflowChecks)
    \/ \E saveFault \in SaveFaults, written \in 0 .. (MaxRuns + 1) :
          Exit(1, saveFault, written)

SpecIo == InitRun /\ [][NextIo]_vars

\* ------------------------------------------- the FileStack used on its own

InitStack ==
    /\ repo = [head |-> NoBranch, branches |-> {}]
    /\ file = NoFile
    /\ last = NoLast
    /\ fs = read_file(file)
    /\ op = NoOp
    /\ hist = NoHist(fs)
    /\ proc = [p \in Procs |-> IdleProc]
    /\ started = 0
    /\ prev = NoLast
    /\ wt = NoTree
    /\ cl = NoArg

StackPush(item) ==
    /\ Len(fs) <= MaxStack
    /\ fs' = push(fs, item)
    /\ op' = [name |-> "push", n |-> 0, pre |-> fs, res |-> "Ok",
              some |-> TRUE, item |-> item]
    /\ hist' = IF hist.popped = <<>>
               THEN [hist EXCEPT !.pushed = Append(@, item)]
               ELSE [base |-> fs, pushed |-> <<item>>, popped |-> <<>>]
    /\ UNCHANGED <<cmdVars, runVars, moreVars>>

StackPop ==
    LET r == pop(fs)
    IN  /\ fs' = r.stack
        /\ op' = [name |-> "pop", n |-> 0, pre |-> fs, res |-> "Ok",
                  some |-> r.some, item |-> r.item]
        /\ hist' = IF Len(hist.popped) < Len(hist.pushed)
                   THEN [hist EXCEPT
                            !.popped = Append(@, [some |-> r.some,
                                                  item |-> r.item])]
                   ELSE NoHist(r.stack)
        /\ UNCHANGED <<cmdVars, runVars, moreVars>>

StackRotateUp(n) ==
    \E overflowChecks \in BOOLEAN :
        LET r == rotate_up(fs, n, overflowChecks)
        IN  /\ fs' = r.stack
            /\ op' = [name |-> "rotate_up", n |-> n, pre |-> fs,
                      res |-> r.res, some |-> FALSE, item |-> <<>>]
            /\ hist' = NoHist(r.stack)
            /\ UNCHANGED <<cmdVars, runVars, moreVars>>

StackRotateDown(n) ==
    LET r == rotate_down(fs, n)
    IN  /\ fs' = r.stack
        /\ op' = [name |-> "rotate_down", n |-> n, pre |-> fs,
                  res |-> r.res, some |-> FALSE, item |-> <<>>]
        /\ hist' = NoHist(r.stack)
        /\ UNCHANGED <<cmdVars, runVars, moreVars>>

NextStack ==
    \/ \E item \in Names : StackPush(item)
    \/ StackPop
    \/ \E n \in RotationArgs : StackRotateUp(n)
    \/ \E n \in RotationArgs : StackRotateDown(n)

SpecStack == InitStack /\ [][NextStack]_vars

\* =================================================================== claims

\* The stack a command started now would load.
Persisted == read_file(file)

\* The branch that was current when the last command started, and whether
\* there was one.
Current0 == last.repo0.head
HadCurrent0 == last.repo0.head \in last.repo0.branches

\* s with its last k entries moved, as a block, to the front.
BlockToFront(s, k) ==
    SubSeq(s, Len(s) - k + 1, Len(s)) \o SubSeq(s, 1, Len(s) - k)

\* s with its first k entries moved, as a block, to the back.
BlockToBack(s, k) == SubSeq(s, k + 1, Len(s)) \o SubSeq(s, 1, k)

\* One 'move bottom entry to top' step, and k of them.
BottomToTop(s) ==
    IF s = <<>> THEN s ELSE <<s[Len(s)]>> \o SubSeq(s, 1, Len(s) - 1)

RECURSIVE BottomToTopTimes(_, _)
BottomToTopTimes(s, k) ==
    IF k = 0 THEN s ELSE BottomToTopTimes(BottomToTop(s), k - 1)

Count(s, x) == Cardinality({i \in DOMAIN s : s[i] = x})
SameBag(s, t) == \A x \in Names : Count(s, x) = Count(t, x)
Entries(s) == {s[i] : i \in DOMAIN s}

\* The extended stack of a rotate: the current branch on top of the loaded stack.
Extended0 == <<Current0>> \o last.stack0

\* C1: a push whose branch switch did not succeed fails and leaves the stack,
\* in memory and as persisted, equal to the stack before the command; the
\* stack is only changed by a push whose switch succeeded.
C1_PushFailedSwitchKeepsStack ==
    (last.cmd = "Push" /\ last.switch # "ok") =>
        /\ last.res # "Ok"
        /\ last.stack = last.stack0
        /\ Persisted = last.stack0

\* A push to a branch that does not exist, on a non-empty stack, has failed.
C1_Witness ==
    /\ last.cmd = "Push"
    /\ last.switch = "failed"
    /\ last.name \notin last.repo0.branches
    /\ last.stack0 # <<>>

\* C2: a push that succeeds from current branch c and stack S leaves the
\* current branch equal to the target and the persisted stack equal to
\* [c] followed by S.
C2_PushSucceeds ==
    (last.cmd = "Push" /\ last.res = "Ok") =>
        /\ HadCurrent0
        /\ repo.head = last.name
        /\ repo.head \in repo.branches
        /\ Persisted = <<Current0>> \o last.stack0

\* A successful push to another branch, on a non-empty stack.
C2_Witness ==
    /\ last.cmd = "Push"
    /\ last.res = "Ok"
    /\ last.name # Current0
    /\ last.stack0 # <<>>

\* C3: a pop that succeeds started from a non-empty stack [t] ++ S and leaves
\* the current branch equal to t and the persisted stack equal to S.
C3_PopSucceeds ==
    (last.cmd = "Pop" /\ last.res = "Ok") =>
        /\ last.stack0 # <<>>
        /\ repo.head = Head(last.stack0)
        /\ Persisted = Tail(last.stack0)

\* A successful pop of a stack of two or more entries to another branch.
C3_Witness ==
    /\ last.cmd = "Pop"
    /\ last.res = "Ok"
    /\ Len(last.stack0) >= 2
    /\ Head(last.stack0) # Current0
    /\ last.stack0[2] # Head(last.stack0)

\* C4: a pop on an empty stack fails with EmptyStack, attempts no branch
\* switch, leaves the repository as it was, and the persisted stack is empty.
C4_PopOnEmptyStack ==
    (last.cmd = "Pop" /\ last.stack0 = <<>>) =>
        /\ last.res = "EmptyStack"
        /\ last.switch = "none"
        /\ repo = last.repo0
        /\ Persisted = <<>>

\* A pop on an empty stack, with HEAD on a branch, has run and saved.
C4_Witness ==
    /\ last.cmd = "Pop"
    /\ last.stack0 = <<>>
    /\ HadCurrent0
    /\ file.exists

\* C5: a pop on a non-empty stack whose branch switch fails returns the error
\* and persists the previous stack without its top entry.
C5_PopFailedSwitchLosesEntry ==
    (last.cmd = "Pop" /\ last.stack0 # <<>> /\ last.switch = "failed") =>
        /\ last.res # "Ok"
        /\ Persisted = Tail(last.stack0)
        /\ Len(Persisted) = Len(last.stack0) - 1

\* A pop whose top entry names no existing branch, on a stack of two or more.
C5_Witness ==
    /\ last.cmd = "Pop"
    /\ last.switch = "failed"
    /\ Len(last.stack0) >= 2
    /\ Head(last.stack0) \notin last.repo0.branches

\* The case of C6: rotate(Up, n) with a current branch and 0 <= n <= L.
RotateUpInRange ==
    /\ last.cmd = "Rotate"
    /\ last.dir = "Up"
    /\ HadCurrent0
    /\ last.n <= Len(last.stack0)

RotateDownInRange ==
    /\ last.cmd = "Rotate"
    /\ last.dir = "Down"
    /\ HadCurrent0
    /\ last.n <= Len(last.stack0)

IsRotationOf(t, s) ==
    /\ Len(t) = Len(s)
    /\ \E k \in 0 .. Len(s) : t = BlockToBack(s, k)

\* C8: a successful rotate preserves the stack length and the multiset of
\* names in current branch plus stack; the branch that was current is in the
\* stack afterwards unless it is current again; and [current] ++ stack is a
\* cyclic rotation of what it was.
C8_RotatePreserves ==
    (last.cmd = "Rotate" /\ last.res = "Ok") =>
        /\ HadCurrent0
        /\ Len(Persisted) = Len(last.stack0)
        /\ SameBag(<<repo.head>> \o Persisted, Extended0)
        /\ (repo.head = Current0 \/ Current0 \in Entries(Persisted))
        /\ IsRotationOf(<<repo.head>> \o Persisted, Extended0)

\* A successful rotate of three distinct names that changed the current branch.
C8_Witness ==
    /\ last.cmd = "Rotate"
    /\ last.res = "Ok"
    /\ Len(last.stack0) = 2
    /\ Cardinality(Entries(Extended0)) = 3
    /\ repo.head # Current0
    /\ Current0 \in Entries(Persisted)

\* C9: rotate_up(n) with n+1 <= len succeeds and yields the last n+1 entries
\* of the old stack in their order followed by the first len-n-1 entries in
\* their order, which is the result of n+1 'move bottom entry to top' steps;
\* with n+1 = len the content is unchanged.
C9_RotateUpMovesBlock ==
    (op.name = "rotate_up" /\ op.n + 1 <= Len(op.pre)) =>
        /\ op.res = "Ok"
        /\ fs = BlockToFront(op.pre, op.n + 1)
        /\ fs = BottomToTopTimes(op.pre, op.n + 1)
        /\ op.n + 1 = Len(op.pre) => fs = op.pre

\* rotate_up(1) on a stack of four entries that it changes.
C9_Witness ==
    /\ op.name = "rotate_up"
    /\ op.n = 1
    /\ Len(op.pre) = 4
    /\ op.res = "Ok"
    /\ fs # op.pre
    /\ Cardinality(Entries(op.pre)) = 3

\* C10 as stated: rotate_up(n) with n+1 > len, which is every n on an empty
\* stack, fails with NoStackEntry and leaves the stack content unchanged.
C10_AsStated ==
    (op.name = "rotate_up" /\ op.n + 1 > Len(op.pre)) =>
        /\ op.res = "NoStackEntry"
        /\ fs = op.pre

\* One 'move top entry to bottom' step, and k of them.
TopToBottom(s) == IF s = <<>> THEN s ELSE Append(Tail(s), Head(s))

RECURSIVE TopToBottomTimes(_, _)
TopToBottomTimes(s, k) ==
    IF k = 0 THEN s ELSE TopToBottomTimes(TopToBottom(s), k - 1)

\* C11: rotate_down(n) with n < len succeeds and yields the old stack without
\* its top n entries followed by those n entries in their order, which is the
\* result of n 'move top entry to bottom' steps; rotate_down(0) on a non-empty
\* stack leaves the content unchanged.
C11_RotateDownMovesBlock ==
    (op.name = "rotate_down" /\ op.n < Len(op.pre)) =>
        /\ op.res = "Ok"
        /\ fs = BlockToBack(op.pre, op.n)
        /\ fs = TopToBottomTimes(op.pre, op.n)
        /\ op.n = 0 => fs = op.pre

\* rotate_down(1) on a stack of four entries that it changes.
C11_Witness ==
    /\ op.name = "rotate_down"
    /\ op.n = 1
    /\ Len(op.pre) = 4
    /\ op.res = "Ok"
    /\ fs # op.pre
    /\ Cardinality(Entries(op.pre)) = 3

\* C12: rotate_down(n) with n >= len fails with NoStackEntry and leaves the
\* stack content unchanged; this includes n = len and rotate_down(0) on an
\* empty stack.
C12_RotateDownOutOfRange ==
    (op.name = "rotate_down" /\ op.n >= Len(op.pre)) =>
        /\ op.res = "NoStackEntry"
        /\ fs = op.pre

\* rotate_down(len) on a stack of three entries has failed.
C12_Witness ==
    /\ op.name = "rotate_down"
    /\ op.n = Len(op.pre)
    /\ Len(op.pre) = 3
    /\ op.res = "NoStackEntry"

Reverse(s) == [i \in 1 .. Len(s) |-> s[Len(s) - i + 1]]

\* C13: on any stack S, pushes of x1..xn followed by pops return xn, ..., x1
\* in that order, each pop leaving the not yet returned entries above S, and
\* after n pops the stack is S again; pop on an empty stack returns None and
\* leaves it empty.
C13_Lifo ==
    LET n == Len(hist.pushed)
        k == Len(hist.popped)
    IN  /\ k <= n
        /\ \A i \in 1 .. k :
              hist.popped[i] = [some |-> TRUE, item |-> hist.pushed[n - i + 1]]
        /\ fs = Reverse(SubSeq(hist.pushed, 1, n - k)) \o hist.base
        /\ k = n => fs = hist.base
        /\ (op.name = "pop" /\ op.pre = <<>>) => (~op.some /\ fs = <<>>)

\* Three pushes of different names on a non-empty stack, then three pops.
C13_Witness ==
    /\ Len(hist.pushed) = 3
    /\ Len(hist.popped) = 3
    /\ Cardinality(Entries(hist.pushed)) = 3
    /\ hist.base # <<>>
    /\ op.name = "pop"

\* C14: the stack a command saves as it ends is the stack the next command
\* loads, same entries in the same order, and the first line of the file is
\* the top of the stack; a command that loads and saves without a mutation
\* (list) leaves the sequence of entries as it was.
C14_RoundTrip ==
    [][last.cmd # "none" =>
          /\ file = save(last.stack)
          /\ last.stack # <<>> => Head(lines(file.text)) = Head(last.stack)
          /\ last'.file0 = file
          /\ last'.stack0 = last.stack
          /\ last'.cmd = "List" => read_file(file') = last.stack]_vars

\* list on a file of three different names, one of them of two characters.
C14_Witness ==
    /\ last.cmd = "List"
    /\ Len(last.stack0) = 3
    /\ Entries(last.stack0) = Names
    /\ last.file0 = save(last.stack0)
    /\ Persisted = last.stack0
    /\ Len(file.text) = 7

\* C20: list prints the current branch and then every stack entry from top to
\* bottom, one per line, and leaves the current branch and the content of the
\* stack as they were.
C20_List ==
    last.cmd = "List" =>
        /\ repo = last.repo0
        /\ last.stack = last.stack0
        /\ Persisted = last.stack0
        /\ HadCurrent0 =>
              /\ last.res = "Ok"
              /\ last.out = <<Current0>> \o last.stack0

\* list with a current branch and three different names on the stack.
C20_Witness ==
    /\ last.cmd = "List"
    /\ last.res = "Ok"
    /\ Len(last.out) = 4
    /\ Entries(last.stack0) = Names
    /\ repo.head = Current0

\* C15: a stack constructed from a path that does not exist is empty and
\* the construction is no error, whatever the file system would do to a
\* read: the first command ever run in a repository starts from an empty
\* stack.
C15_MissingFile ==
    \A p \in Procs :
        (proc[p].pc # "idle" /\ ~proc[p].file0.exists) =>
            /\ proc[p].loaded
            /\ proc[p].stack0 = <<>>
            /\ proc[p].res # "IoError"

\* The first command ever is a push that succeeds: the file is created with
\* the branch that was left as its only entry.
C15_Witness ==
    /\ proc[1].pc = "done"
    /\ proc[1].id = 1
    /\ ~proc[1].file0.exists
    /\ proc[1].action.tag = "Push"
    /\ proc[1].res = "Ok"
    /\ file = save(<<master>>)

\* C16: an invocation that loaded the stack calls save once, as it ends, after
\* the switch and the mutations of its command, whether the command succeeded
\* or failed; until then the file is as the invocation found it, and an
\* invocation that could not load the stack never writes it.
C16_SavedOnceAtExit ==
    \A p \in Procs :
        /\ proc[p].pc \in {"loaded", "ran"} =>
              (proc[p].saves = 0 /\ file = proc[p].file0)
        /\ (proc[p].pc = "done" /\ proc[p].loaded) =>
              /\ proc[p].saves = 1
              /\ proc[p].saved = "Ok" => file = save(proc[p].stack)
        /\ (proc[p].pc = "done" /\ ~proc[p].loaded) =>
              (proc[p].saves = 0 /\ file = proc[p].file0)

\* A pop whose switch failed: the command is an error, and the stack without
\* the popped entry is in the file.
C16_Witness ==
    /\ proc[1].pc = "done"
    /\ proc[1].action.tag = "Pop"
    /\ proc[1].res = "GitError"
    /\ proc[1].saves = 1
    /\ proc[1].stack # proc[1].stack0
    /\ file = save(proc[1].stack)
    /\ file # proc[1].file0

\* C17, as stated: after a command that returns success, the file holds the
\* final in-memory stack of the invocation.
C17_AsStated ==
    \A p \in Procs :
        (proc[p].pc = "done" /\ proc[p].res = "Ok") =>
            (file.exists /\ Persisted = proc[p].stack)

\* C18: the process exits with the result of its command, whether the save
\* of Drop succeeded or failed.
C18_SaveErrorSwallowed ==
    [][\A p \in Procs :
          (proc[p].pc = "ran" /\ proc'[p].pc = "done") =>
              /\ proc'[p].res = proc[p].res
              /\ proc'[p].res = proc'[p].ran]_vars

\* A push that succeeded and whose save failed.
C18_Witness ==
    /\ proc[1].pc = "done"
    /\ proc[1].action.tag = "Push"
    /\ proc[1].saved = "IoError"
    /\ proc[1].res = "Ok"
    /\ Persisted # proc[1].stack

\* Invocation of q had loaded and not saved when p saved, and q has saved since.
SavedOver(p, q) ==
    /\ p # q
    /\ proc[p].pc = "done"
    /\ proc[q].pc = "done"
    /\ proc[q].id \in proc[p].over

\* C19: when two invocations have both loaded before either saves, the file
\* finally holds the in-memory stack of the one that saved last, which is the
\* stack it loaded with its own mutation only (on the repository as it found
\* it); of two overlapping pushes on the same file, one pushed entry is in the
\* file.
C19_LastSaveWins ==
    \A p, q \in Procs :
        SavedOver(p, q) =>
            /\ file = save(proc[q].stack)
            /\ \E r \in Repositories, fault \in GitFaults,
                  overflowChecks \in BOOLEAN :
                  proc[q].stack =
                      match_action(proc[q].action, r, proc[q].stack0, fault,
                                   overflowChecks).stack
            /\ (/\ proc[p].action.tag = "Push" /\ proc[p].res = "Ok"
                /\ proc[q].action.tag = "Push" /\ proc[q].res = "Ok"
                /\ proc[p].file0 = proc[q].file0) =>
                  /\ Len(Persisted) = Len(proc[p].stack0) + 1
                  /\ Tail(Persisted) = proc[p].stack0

\* Two pushes that both loaded the same file and both succeeded.
C19_Witness ==
    /\ SavedOver(1, 2)
    /\ proc[1].action.tag = "Push" /\ proc[1].res = "Ok"
    /\ proc[2].action.tag = "Push" /\ proc[2].res = "Ok"
    /\ proc[1].file0 = proc[2].file0
    /\ Len(proc[1].stack) = Len(proc[1].stack0) + 1
    /\ Persisted # proc[1].stack

\* C21, as stated: every branch switch performed by push, pop or rotate leaves
\* the untracked and the ignored files of the working tree in place.
C21_AsStated ==
    [][last'.switch = "ok" =>
          (wt'.untracked = wt.untracked /\ wt'.ignored = wt.ignored)]_vars

\* C22: without a current branch, push, rotate and list fail with
\* NoCurrentBranch before any switch and any mutation of the stack: HEAD and
\* the content of the persisted stack are as before, and nothing is printed.
C22_NoCurrentBranch ==
    (last.cmd \in {"Push", "Rotate", "List"} /\ ~HadCurrent0) =>
        /\ last.res = "NoCurrentBranch"
        /\ last.switch = "none"
        /\ repo = last.repo0
        /\ last.stack = last.stack0
        /\ Persisted = last.stack0
        /\ last.out = <<>>

\* A rotate within range on a stack of two entries, HEAD on no branch.
C22_Witness ==
    /\ last.cmd = "Rotate"
    /\ last.n = 1
    /\ ~HadCurrent0
    /\ Len(last.stack0) = 2
    /\ last.stack0[2] \in last.repo0.branches
    /\ last.res = "NoCurrentBranch"

\* C24, as stated: rotate_up(n) fails with NoStackEntry for every word n whose
\* successor exceeds the length of the stack, the largest word included.
C24_AsStated ==
    (op.name = "rotate_up" /\ (op.n = UsizeMax \/ op.n >= Len(op.pre))) =>
        op.res = "NoStackEntry"

\* C26, as stated: with L entries in the stack file and a current branch,
\* rotate(Up, n) and rotate(Down, n) fail with NoStackEntry exactly when n > L,
\* and a rotate that fails so attempts no switch and leaves the current branch.
C26_AsStated ==
    (last.cmd = "Rotate" /\ HadCurrent0) =>
        /\ last.res = "NoStackEntry" <=> last.n > Len(last.stack0)
        /\ last.res = "NoStackEntry" =>
              (last.switch = "none" /\ repo = last.repo0)

\* C27, as stated: a rotate that fails, with NoStackEntry or at its switch,
\* leaves the persisted stack equal to the stack before the command.
C27_AsStated ==
    (last.cmd = "Rotate" /\ last.res \in {"NoStackEntry", "GitError"}) =>
        Persisted = last.stack0

\* C23: from any current branch c and stack S, a successful push followed by
\* a successful pop leaves the current branch c and the persisted stack S.
C23_PushPop ==
    (/\ prev.cmd = "Push" /\ prev.res = "Ok"
     /\ last.cmd = "Pop" /\ last.res = "Ok") =>
        /\ repo.head = prev.repo0.head
        /\ Persisted = prev.stack0

\* push of another branch on a stack of two entries, then pop.
C23_Witness ==
    /\ prev.cmd = "Push" /\ prev.res = "Ok"
    /\ last.cmd = "Pop" /\ last.res = "Ok"
    /\ prev.name # prev.repo0.head
    /\ last.repo0.head = prev.name
    /\ Len(prev.stack0) = 2
    /\ repo.head = prev.repo0.head

\* C28: from any current branch c and stack S of length L, for every n < L, a
\* successful rotate(Up, n) followed by rotate(Down, n+1) leaves the persisted
\* stack S and, the second rotate succeeding too, the current branch c.
C28_DownUndoesUp ==
    (/\ prev.cmd = "Rotate" /\ prev.dir = "Up" /\ prev.res = "Ok"
     /\ prev.n < Len(prev.stack0)
     /\ last.cmd = "Rotate" /\ last.dir = "Down" /\ last.n = prev.n + 1) =>
        /\ last.res \in {"Ok", "GitError"}
        /\ Persisted = prev.stack0
        /\ last.res = "Ok" => repo.head = prev.repo0.head

\* `push +1` then `push -2` on a stack of two entries, three different names.
C28_Witness ==
    /\ prev.cmd = "Rotate" /\ prev.dir = "Up" /\ prev.res = "Ok"
    /\ prev.n = 1
    /\ last.cmd = "Rotate" /\ last.dir = "Down" /\ last.n = 2
    /\ last.res = "Ok"
    /\ Len(prev.stack0) = 2
    /\ Entries(<<prev.repo0.head>> \o prev.stack0) = Names
    /\ last.repo0.head # prev.repo0.head
    /\ Persisted # last.stack0

\* C29: on a stack of length len >= 1 and for n < len, rotate_up(n) and
\* rotate_down(len - n - 1) both succeed and leave the same stack; of the two
\* full-length rotations, rotate_down(len) fails and rotate_up(len - 1)
\* succeeds and changes nothing.
C29_UpIsDown ==
    LET len == Len(op.pre)
    IN  /\ (op.name = "rotate_up" /\ op.n < len) =>
              /\ op.res = "Ok"
              /\ rotate_down(op.pre, len - op.n - 1) =
                    [res |-> "Ok", stack |-> fs]
              /\ op.n = len - 1 => fs = op.pre
        /\ (op.name = "rotate_down" /\ op.n < len) =>
              /\ op.res = "Ok"
              /\ \A overflowChecks \in BOOLEAN :
                    rotate_up(op.pre, len - op.n - 1, overflowChecks) =
                        [res |-> "Ok", stack |-> fs]
        /\ (op.name = "rotate_down" /\ op.n = len) =>
              /\ op.res = "NoStackEntry"
              /\ len >= 1 =>
                    \A overflowChecks \in BOOLEAN :
                        rotate_up(op.pre, len - 1, overflowChecks) =
                            [res |-> "Ok", stack |-> op.pre]

\* rotate_up(1) on four entries, three of them different: what rotate_down(2)
\* makes of them.
C29_Witness ==
    /\ op.name = "rotate_up"
    /\ op.n = 1
    /\ Len(op.pre) = 4
    /\ Cardinality(Entries(op.pre)) = 3
    /\ fs = BlockToBack(op.pre, 2)
    /\ fs # op.pre

\* C30: from an empty stack and HEAD on an existing branch, after any
\* commands one after another, every entry of the persisted stack names an
\* existing local branch, so that no pop and no rotate started now fails at
\* its switch (libgit2 itself not failing).
C30_EntriesExist ==
    /\ Entries(Persisted) \subseteq repo.branches
    /\ repo.head \in repo.branches
    /\ \A action \in {ActPop} \cup
              {ActRotate(dir, n) : dir \in Directions, n \in RotationArgs},
          overflowChecks \in BOOLEAN :
          invoke_action(action, repo, file, "none", overflowChecks).switch
              # "failed"
    /\ (last.cmd \in {"Pop", "Rotate"} /\ last.switch = "failed") =>
          (last.out # <<>> /\ last.out[1] \in last.repo0.branches)

\* A rotate that succeeded and left two different entries in the file.
C30_Witness ==
    /\ last.cmd = "Rotate"
    /\ last.res = "Ok"
    /\ last.n = 1
    /\ Len(Persisted) = 2
    /\ Cardinality(Entries(Persisted)) = 2
    /\ Persisted # last.stack0

\* A string of decimal digits, its value, and whether the value fits a word.
IsUnsigned(s) == s # <<>> /\ \A i \in DOMAIN s : IsDigit(s[i])

RECURSIVE Value(_)
Value(s) ==
    IF s = <<>> THEN 0
    ELSE Value(SubSeq(s, 1, Len(s) - 1)) * 10 + DigitValue(s[Len(s)])

FitsWord(s) == IsUnsigned(s) /\ Value(s) <= UsizeMax

HasSign(a) == a # <<>> /\ Head(a) \in {"+", "-"}

DirectionOf(a) == IF Head(a) = "+" THEN "Up" ELSE "Down"

\* C25, as stated: "+" followed by an unsigned integer N is Rotate(Up, N),
\* "-" followed by N is Rotate(Down, N), and every other argument, a sign
\* not followed by an unsigned integer included, is Push of the argument.
C25_AsStated ==
    cl.action.tag # "List" =>
        IF HasSign(cl.arg) /\ FitsWord(Tail(cl.arg))
        THEN cl.action = ActRotate(DirectionOf(cl.arg), Value(Tail(cl.arg)))
        ELSE cl.action = ActPush(cl.arg)

\* The digits of what follows the sign: one "+" ahead of them is allowed.
DigitsOf(a) ==
    IF Len(a) >= 2 /\ a[2] = "+" THEN SubSeq(a, 3, Len(a)) ELSE Tail(a)

\* C25, amended: a sign followed by digits whose value fits a word, with or
\* without one "+" between the sign and the digits, is a rotation by that
\* value, Up for "+" and Down for "-"; every other argument is Push of the
\* argument.
C25_Dispatch ==
    cl.action.tag # "List" =>
        IF HasSign(cl.arg) /\ FitsWord(DigitsOf(cl.arg))
        THEN cl.action =
                ActRotate(DirectionOf(cl.arg), Value(DigitsOf(cl.arg)))
        ELSE cl.action = ActPush(cl.arg)

\* `push ++1` is a rotation.
C25_Witness ==
    /\ cl.arg = <<"+", "+", "1">>
    /\ cl.action = ActRotate("Up", 1)

\* C31, as stated: when a list has loaded the stack before an overlapping push
\* or pop saves, and ends after it, the stack file still holds what that push
\* or pop wrote.
C31_AsStated ==
    \A p, q \in Procs :
        (/\ SavedOver(p, q)
         /\ proc[p].action.tag \in {"Push", "Pop"}
         /\ proc[q].action.tag = "List") =>
            file = save(proc[p].stack)

====
